---- MODULE Spec2Model ----
(***************************************************************************)
(* Model of mvt/android/modules/adb/sms.py: the SMS module's run(), its    *)
(* direct-access path (_parse_db) and its backup path (_extract_sms_adb,   *)
(* _extract_sms_from_backup_tar).                                          *)
(*                                                                         *)
(* Byte strings and text are sequences of one-character strings.  The      *)
(* Python value None in a text column is the one-token sequence None.      *)
(* The device layer, the link detector and the timestamp converter are     *)
(* external: their outcomes are inputs drawn by the actions that call them.*)
(* Line 144 of the source, a sentence that lost its comment marker, is    *)
(* read as the comment it was.  A NULL type flag is not among TypeFlags.    *)
(***************************************************************************)
EXTENDS Integers, Sequences, FiniteSets, TLC

VARIABLES pc, exc, SMS_DB_TYPE, results, results0, conn, executed,
          participants, nrows, produced, probes, copied, privRaised,
          backupCalls, logged, bu_commands, backup_output_b64, backup_output,
          fields, tarHanded, members, nmsgs

vars == <<pc, exc, SMS_DB_TYPE, results, results0, conn, executed,
          participants, nrows, produced, probes, copied, privRaised,
          backupCalls, logged, bu_commands, backup_output_b64, backup_output,
          fields, tarHanded, members, nmsgs>>

directVars == <<SMS_DB_TYPE, conn, executed, participants, nrows, probes, copied>>
backupVars == <<bu_commands, backup_output_b64, backup_output, fields, tarHanded, members, nmsgs>>

----------------------------------------------------------------------------
(* Bounds *)

MaxRows == 2
MaxMsgs == 2
MaxPayload == 2

----------------------------------------------------------------------------
(* Values *)

None == <<"None">>
NL == "\n"

SMS_BUGLE_PATH == "/data/data/com.google.android.apps.messaging/databases/bugle_db"
SMS_MMSSMS_PATH == "/data/data/com.android.providers.telephony/databases/mmssms.db"
SMS_BUGLE_QUERY == "SMS_BUGLE_QUERY"
SMS_MMSMS_QUERY == "SMS_MMSMS_QUERY"

\* Message texts: " " is whitespace, "t" an ordinary character, "L" a link.
Bodies == { <<>>, <<" ">>, <<"t">>, <<" ", "L">>, <<" ", "t", " ">>, None }
Addresses == { <<"+", "1">> }
Timestamps == { 1 }
TypeFlags == 0..3
SenderIds == 1..3
ContactIds == { -1, 7 }

\* A record left in the result list by the constructor's results argument.
Preexisting == [body |-> <<"t">>, direction |-> "sent", isodate |-> <<"iso", 0>>]

----------------------------------------------------------------------------
(* Pure helpers *)

IsWhite(c) == c = " "

RECURSIVE lstrip(_)
lstrip(s) == IF s # <<>> /\ IsWhite(Head(s)) THEN lstrip(Tail(s)) ELSE s

RECURSIVE rstrip(_)
rstrip(s) == IF s # <<>> /\ IsWhite(s[Len(s)]) THEN rstrip(SubSeq(s, 1, Len(s) - 1)) ELSE s

\* str.strip() / bytes.strip()
strip(s) == rstrip(lstrip(s))

\* mvt.common.utils.check_for_links: the links found in a text.
check_for_links(text) == SelectSeq(text, LAMBDA c : c = "L")

\* mvt.common.utils.convert_timestamp_to_iso
convert_timestamp_to_iso(ts) == <<"iso", ts>>

IsPrefix(s, t) == Len(s) <= Len(t) /\ SubSeq(t, 1, Len(s)) = s

startswith(s, p) == IsPrefix(p, s)

endswith(s, p) == Len(p) <= Len(s) /\ SubSeq(s, Len(s) - Len(p) + 1, Len(s)) = p

\* Index of the first occurrence of c in s, 0 when there is none.
Find(s, c) == IF \E i \in 1..Len(s) : s[i] = c
              THEN CHOOSE i \in 1..Len(s) : s[i] = c /\ \A j \in 1..(i - 1) : s[j] # c
              ELSE 0

\* bytes.split(sep, maxsplit)
RECURSIVE split(_, _, _)
split(s, sep, maxsplit) ==
    IF maxsplit = 0 \/ Find(s, sep) = 0
    THEN <<s>>
    ELSE <<SubSeq(s, 1, Find(s, sep) - 1)>>
         \o split(SubSeq(s, Find(s, sep) + 1, Len(s)), sep, maxsplit - 1)

Digit == [c \in {"0", "1"} |-> IF c = "0" THEN 0 ELSE 1]

RECURSIVE DigitsValue(_)
DigitsValue(d) == IF d = <<>> THEN 0
                  ELSE 10 * DigitsValue(SubSeq(d, 1, Len(d) - 1)) + Digit[d[Len(d)]]

\* int(x) for a text or byte string: surrounding whitespace, one optional
\* sign, then at least one digit; anything else raises ValueError.
int(x) ==
    LET s == strip(x)
        signed == s # <<>> /\ Head(s) \in {"+", "-"}
        d == IF signed THEN Tail(s) ELSE s
        ok == d # <<>> /\ \A i \in 1..Len(d) : d[i] \in DOMAIN Digit
    IN  [ok |-> ok,
         val |-> IF ~ok THEN 0
                 ELSE IF signed /\ Head(s) = "-" THEN 0 - DigitsValue(d)
                 ELSE DigitsValue(d)]

\* A list insertion at the front instead of the end.
prepend(list, message) == <<message>> \o list

\* list.append
append(list, message) == Append(list, message)

----------------------------------------------------------------------------
(* The two queries, as functions from the stored row to the result row *)

\* (SELECT _id FROM participants WHERE contact_id=-1)
UnknownContactGroup(ppl) == { p \in DOMAIN ppl : ppl[p] = -1 }

\* The CASE of the query with its two results exchanged.
bugle_incoming_swapped(sender_id, ppl) ==
    IF sender_id \in UnknownContactGroup(ppl) THEN 1 ELSE 2

\* SMS_BUGLE_QUERY lines 28-30
bugle_incoming(sender_id, ppl) ==
    IF sender_id \in UnknownContactGroup(ppl) THEN 2 ELSE 1

bugle_row(src, ppl) ==
    [address |-> src.address, timestamp |-> src.timestamp,
     incoming |-> bugle_incoming(src.sender_id, ppl), body |-> src.body]

mmssms_row(src) ==
    [address |-> src.address, timestamp |-> src.date_sent,
     incoming |-> src.type, body |-> src.body]

BugleSources == [address : Addresses, timestamp : Timestamps,
                 sender_id : SenderIds, body : Bodies]

MmssmsSources == [address : Addresses, date_sent : Timestamps,
                  type : TypeFlags, body : Bodies]

ParticipantTables == [1..2 -> ContactIds]

\* The two branches of the dispatch exchanged.
query_for_swapped(db_type) == IF db_type = 1 THEN SMS_MMSMS_QUERY ELSE SMS_BUGLE_QUERY

\* _parse_db line 89-92: the query chosen by the schema variant.
query_for(db_type) == IF db_type = 1 THEN SMS_BUGLE_QUERY ELSE SMS_MMSMS_QUERY

\* A test for the sent flag instead of the received flag.
parse_db_direction_not2(incoming) == IF incoming # 2 THEN "received" ELSE "sent"

\* _parse_db line 101
parse_db_direction(incoming) == IF incoming = 1 THEN "received" ELSE "sent"

\* A filter that keeps every message.
parse_db_keep_all(body) == TRUE

\* _parse_db line 106
parse_db_keep(body) == check_for_links(body) # <<>> \/ strip(body) = <<>>

\* _parse_db lines 97-102: the message built from a result row.
parse_db_message(row) ==
    [address |-> row.address, timestamp |-> row.timestamp,
     incoming |-> row.incoming, body |-> row.body,
     direction |-> parse_db_direction(row.incoming),
     isodate |-> convert_timestamp_to_iso(row.timestamp)]

----------------------------------------------------------------------------
(* run(): exceptions *)

\* A handler that names another exception class.
CatchesNothing(e) == FALSE

\* run line 171: the except clause.
Catches(e) == e = "InsufficientPrivileges"

Raise(e) == pc' = "raised" /\ exc' = e

\* An exception raised inside the try block of run().
RaiseInTry(e) ==
    IF Catches(e) THEN pc' = "except" /\ exc' = "none" ELSE Raise(e)

----------------------------------------------------------------------------
Init ==
    /\ pc = "run"
    /\ exc = "none"
    /\ SMS_DB_TYPE = 0
    /\ results0 \in { <<>>, <<Preexisting>> }
    /\ results = results0
    /\ conn = "none"
    /\ executed = <<>>
    /\ participants = [p \in {} |-> 0]
    /\ nrows = 0
    /\ produced = <<>>
    /\ probes = <<>>
    /\ copied = <<>>
    /\ privRaised = 0
    /\ backupCalls = 0
    /\ logged = {}
    /\ bu_commands = 0
    /\ backup_output_b64 = [padding_ok |-> TRUE, data |-> <<>>]
    /\ backup_output = <<>>
    /\ fields = <<>>
    /\ tarHanded = FALSE
    /\ members = <<>>
    /\ nmsgs = 0

----------------------------------------------------------------------------
(* run(): the direct-access phase *)

\* line 164: the ChatApp store exists.
ProbeBugleFound ==
    /\ pc = "run"
    /\ probes' = Append(probes, SMS_BUGLE_PATH)
    /\ SMS_DB_TYPE' = 1
    /\ pc' = "process_file"
    /\ UNCHANGED <<exc, results, results0, conn, executed, participants, nrows,
                   produced, copied, privRaised, backupCalls, logged>>
    /\ UNCHANGED backupVars

\* line 164: the ChatApp store is absent.
ProbeBugleAbsent ==
    /\ pc = "run"
    /\ probes' = Append(probes, SMS_BUGLE_PATH)
    /\ pc' = "probe_mmssms"
    /\ UNCHANGED <<exc, SMS_DB_TYPE, results, results0, conn, executed,
                   participants, nrows, produced, copied, privRaised,
                   backupCalls, logged>>
    /\ UNCHANGED backupVars

\* line 164: the device layer raises InsufficientPrivileges.
ProbeBugleDenied ==
    /\ pc = "run"
    /\ probes' = Append(probes, SMS_BUGLE_PATH)
    /\ privRaised' = privRaised + 1
    /\ RaiseInTry("InsufficientPrivileges")
    /\ UNCHANGED <<SMS_DB_TYPE, results, results0, conn, executed,
                   participants, nrows, produced, copied, backupCalls, logged>>
    /\ UNCHANGED backupVars

\* line 167
ProbeMmssmsFound ==
    /\ pc = "probe_mmssms"
    /\ probes' = Append(probes, SMS_MMSSMS_PATH)
    /\ SMS_DB_TYPE' = 2
    /\ pc' = "process_file"
    /\ UNCHANGED <<exc, results, results0, conn, executed, participants, nrows,
                   produced, copied, privRaised, backupCalls, logged>>
    /\ UNCHANGED backupVars

\* The return of line 170 missing: run() falls through to the fallback.
ProbeMmssmsAbsent_fallthrough ==
    /\ pc = "probe_mmssms"
    /\ probes' = Append(probes, SMS_MMSSMS_PATH)
    /\ pc' = "except"
    /\ UNCHANGED <<exc, SMS_DB_TYPE, results, results0, conn, executed,
                   participants, nrows, produced, copied, privRaised,
                   backupCalls, logged>>
    /\ UNCHANGED backupVars

\* lines 167, 170: neither store exists, run() returns.
ProbeMmssmsAbsent ==
    /\ pc = "probe_mmssms"
    /\ probes' = Append(probes, SMS_MMSSMS_PATH)
    /\ pc' = "done"
    /\ UNCHANGED <<exc, SMS_DB_TYPE, results, results0, conn, executed,
                   participants, nrows, produced, copied, privRaised,
                   backupCalls, logged>>
    /\ UNCHANGED backupVars

\* line 167
ProbeMmssmsDenied ==
    /\ pc = "probe_mmssms"
    /\ probes' = Append(probes, SMS_MMSSMS_PATH)
    /\ privRaised' = privRaised + 1
    /\ RaiseInTry("InsufficientPrivileges")
    /\ UNCHANGED <<SMS_DB_TYPE, results, results0, conn, executed,
                   participants, nrows, produced, copied, backupCalls, logged>>
    /\ UNCHANGED backupVars

\* lines 166, 169: _adb_process_file copies the store and calls _parse_db.
ProcessFileCopied ==
    /\ pc = "process_file"
    /\ copied' = Append(copied, IF SMS_DB_TYPE = 1 THEN SMS_BUGLE_PATH ELSE SMS_MMSSMS_PATH)
    /\ pc' = "connect"
    /\ UNCHANGED <<exc, SMS_DB_TYPE, results, results0, conn, executed,
                   participants, nrows, produced, probes, privRaised,
                   backupCalls, logged>>
    /\ UNCHANGED backupVars

\* lines 166, 169: the copy is refused with InsufficientPrivileges.
ProcessFileDenied ==
    /\ pc = "process_file"
    /\ privRaised' = privRaised + 1
    /\ RaiseInTry("InsufficientPrivileges")
    /\ UNCHANGED <<SMS_DB_TYPE, results, results0, conn, executed,
                   participants, nrows, produced, probes, copied, backupCalls,
                   logged>>
    /\ UNCHANGED backupVars

----------------------------------------------------------------------------
(* _parse_db *)

\* lines 86-87
ParseConnect ==
    /\ pc = "connect"
    /\ conn' = "open"
    /\ pc' = "execute"
    /\ UNCHANGED <<exc, SMS_DB_TYPE, results, results0, executed, participants,
                   nrows, produced, probes, copied, privRaised, backupCalls,
                   logged>>
    /\ UNCHANGED backupVars

\* lines 89-94: the query of the schema variant runs.
ParseExecute ==
    /\ pc = "execute"
    /\ SMS_DB_TYPE \in {1, 2}
    /\ executed' = Append(executed, query_for(SMS_DB_TYPE))
    /\ \E ppl \in ParticipantTables :
         participants' = IF query_for(SMS_DB_TYPE) = SMS_BUGLE_QUERY THEN ppl
                         ELSE participants
    /\ pc' = "fetch"
    /\ UNCHANGED <<exc, SMS_DB_TYPE, results, results0, conn, nrows, produced,
                   probes, copied, privRaised, backupCalls, logged>>
    /\ UNCHANGED backupVars

\* lines 89-92: cur.execute raises (a table is missing, the file is no database).
ParseExecuteFails ==
    /\ pc = "execute"
    /\ SMS_DB_TYPE \in {1, 2}
    /\ executed' = Append(executed, query_for(SMS_DB_TYPE))
    /\ RaiseInTry("sqlite3.Error")
    /\ UNCHANGED <<SMS_DB_TYPE, results, results0, conn, participants, nrows,
                   produced, probes, copied, privRaised, backupCalls, logged>>
    /\ UNCHANGED backupVars

\* The result row the cursor yields for a stored row.
RowOf(src) ==
    IF executed[Len(executed)] = SMS_BUGLE_QUERY
    THEN bugle_row(src, participants) ELSE mmssms_row(src)

SourcesOf(q) == IF q = SMS_BUGLE_QUERY THEN BugleSources ELSE MmssmsSources

\* lines 96-107: one row of the cursor, mapped, filtered and appended.
ParseRow ==
    /\ pc = "fetch"
    /\ nrows < MaxRows
    /\ \E src \in SourcesOf(executed[Len(executed)]) :
         LET message == parse_db_message(RowOf(src)) IN
           /\ src.body # None
           /\ nrows' = nrows + 1
           /\ produced' = Append(produced, [src |-> src, rec |-> message])
           /\ results' = IF parse_db_keep(message.body)
                         THEN append(results, message) ELSE results
    /\ UNCHANGED <<pc, exc, SMS_DB_TYPE, results0, conn, executed, participants,
                   probes, copied, privRaised, backupCalls, logged>>
    /\ UNCHANGED backupVars

\* line 102: the timestamp converter raises.
ParseRowConvertFails ==
    /\ pc = "fetch"
    /\ nrows < MaxRows
    /\ nrows' = nrows + 1
    /\ RaiseInTry("ConvertError")
    /\ UNCHANGED <<SMS_DB_TYPE, results, results0, conn, executed, participants,
                   produced, probes, copied, privRaised, backupCalls, logged>>
    /\ UNCHANGED backupVars

\* line 106: the body column is NULL, check_for_links(None) raises.
ParseRowNullBody ==
    /\ pc = "fetch"
    /\ nrows < MaxRows
    /\ \E src \in SourcesOf(executed[Len(executed)]) : src.body = None
    /\ nrows' = nrows + 1
    /\ RaiseInTry("TypeError")
    /\ UNCHANGED <<SMS_DB_TYPE, results, results0, conn, executed, participants,
                   produced, probes, copied, privRaised, backupCalls, logged>>
    /\ UNCHANGED backupVars

\* lines 109-112, 170: the cursor is exhausted; close, log, return.
ParseClose ==
    /\ pc = "fetch"
    /\ conn' = "closed"
    /\ logged' = logged \cup {"extracted_total"}
    /\ pc' = "done"
    /\ UNCHANGED <<exc, SMS_DB_TYPE, results, results0, executed, participants,
                   nrows, produced, probes, copied, privRaised, backupCalls>>
    /\ UNCHANGED backupVars

----------------------------------------------------------------------------
(* The backup command's output *)

MAGIC == <<"A", "N", "D", "R", "O", "I", "D", " ", "B", "A", "C", "K", "U", "P">>
ENC_NONE == <<"n", "o", "n", "e">>
SMS_BACKUP_SUFFIX == <<"_sms_backup">>

Headers == { MAGIC, <<"A", "N", "D", "R", "O", "I", "D">> }
Versions == { <<"5">> }
CompressedFields == { <<"0">>, <<"1">>, <<"0", "0">>, <<"-", "1">>, <<"x">>, <<>> }
EncryptionFields == { ENC_NONE, <<"a", "e", "s">>, <<>> }

\* The archive, block by block: a member header, or a newline byte that is
\* no header.
HeaderTokens == { "H_sms", "H_other" }
PayloadTokens == HeaderTokens \cup { NL }

\* TarInfo.name of the member a header block starts.
MemberName == [ t \in HeaderTokens |->
                  IF t = "H_sms" THEN <<"apps/", "000000", "_sms_backup">>
                  ELSE <<"apps/", "_manifest">> ]

RECURSIVE SeqsUpTo(_, _)
SeqsUpTo(S, n) ==
    IF n = 0 THEN { <<>> }
    ELSE SeqsUpTo(S, n - 1) \cup
         { Append(s, x) : s \in { t \in SeqsUpTo(S, n - 1) : Len(t) = n - 1 }, x \in S }

Payloads == SeqsUpTo(PayloadTokens, MaxPayload)

RECURSIVE Join(_)
Join(fs) == IF Len(fs) = 1 THEN fs[1] ELSE fs[1] \o <<NL>> \o Join(Tail(fs))

FullFieldLists ==
    { <<h, v, c, e, p>> : h \in Headers, v \in Versions, c \in CompressedFields,
                          e \in EncryptionFields, p \in Payloads }

\* Every stream of one to five fields.
BackupStreams == { Join(SubSeq(f, 1, k)) : f \in FullFieldLists, k \in 1..5 }

\* What the shell transport returns: base64 text, abstracted to whether
\* its padding is correct and the bytes it encodes.
BackupOutputs ==
    { [padding_ok |-> FALSE, data |-> <<>>] } \cup
    { [padding_ok |-> TRUE, data |-> s] : s \in BackupStreams }

\* _extract_sms_adb line 155: "unsupported", "ok", or the exception raised.
backup_check(encryption, is_compressed) ==
    IF encryption # ENC_NONE THEN "unsupported"
    ELSE IF ~int(is_compressed).ok THEN "ValueError"
    ELSE IF int(is_compressed).val # 0 THEN "unsupported"
    ELSE "ok"

RECURSIVE HeaderPrefix(_)
HeaderPrefix(p) == IF p # <<>> /\ Head(p) \in HeaderTokens
                   THEN <<Head(p)>> \o HeaderPrefix(Tail(p)) ELSE <<>>

\* tarfile.open(...).getmembers(): an archive whose first block is no header
\* raises ReadError; a bad block after a member ends the archive.
tar_getmembers(tar_data) ==
    IF tar_data = <<>> \/ Head(tar_data) \notin HeaderTokens
    THEN [ok |-> FALSE, members |-> <<>>]
    ELSE [ok |-> TRUE, members |-> HeaderPrefix(tar_data)]

JsonBodies == { <<" ">>, <<"t">>, <<" ", "L">>, None }

JsonMessages == [address : Addresses, date : { <<"1", "0", "0", "0">>, <<"x">> },
                 date_sent : { <<"0">>, <<"1">>, <<"x">> }, body : JsonBodies]

\* _extract_sms_from_backup_tar line 130
backup_direction(date_sent) == IF int(date_sent).val # 0 THEN "sent" ELSE "received"

\* _extract_sms_from_backup_tar lines 132-133
backup_keep(body) == check_for_links(body) # <<>> \/ strip(body) = <<>>

\* lines 128-130: the exception a message raises, "none" when it raises none.
backup_message_error(m, convOk) ==
    IF ~int(m.date).ok THEN "ValueError"
    ELSE IF ~convOk THEN "ConvertError"
    ELSE IF ~int(m.date_sent).ok THEN "ValueError"
    ELSE IF m.body = None THEN "TypeError"
    ELSE "none"

\* lines 128-130
backup_message(m) ==
    [address |-> m.address, date |-> m.date, date_sent |-> m.date_sent,
     body |-> m.body,
     isodate |-> convert_timestamp_to_iso(int(m.date).val \div 1000),
     direction |-> backup_direction(m.date_sent)]

----------------------------------------------------------------------------
(* run(): the fallback, and _extract_sms_adb *)

\* lines 171-175: the handler passes, run() warns and calls _extract_sms_adb.
RunFallback ==
    /\ pc = "except"
    /\ logged' = logged \cup {"trying_backup"}
    /\ backupCalls' = backupCalls + 1
    /\ pc' = "adb_backup"
    /\ UNCHANGED <<exc, results, results0, produced, privRaised>>
    /\ UNCHANGED directVars
    /\ UNCHANGED backupVars

\* lines 145-148: warn the operator, issue the backup command.
BackupCommand ==
    /\ pc = "adb_backup"
    /\ logged' = logged \cup {"accept_prompt"}
    /\ bu_commands' = bu_commands + 1
    /\ \E out \in BackupOutputs : backup_output_b64' = out
    /\ pc' = "b64decode"
    /\ UNCHANGED <<exc, results, results0, produced, privRaised, backupCalls,
                   backup_output, fields, tarHanded, members, nmsgs>>
    /\ UNCHANGED directVars

\* line 149
BackupDecode ==
    /\ pc = "b64decode"
    /\ backup_output_b64.padding_ok
    /\ backup_output' = backup_output_b64.data
    /\ pc' = "magic"
    /\ UNCHANGED <<exc, results, results0, produced, privRaised, backupCalls,
                   logged, bu_commands, backup_output_b64, fields, tarHanded,
                   members, nmsgs>>
    /\ UNCHANGED directVars

\* line 149: base64.b64decode raises binascii.Error.
BackupDecodeFails ==
    /\ pc = "b64decode"
    /\ ~backup_output_b64.padding_ok
    /\ Raise("binascii.Error")
    /\ UNCHANGED <<results, results0, produced, privRaised, backupCalls, logged>>
    /\ UNCHANGED directVars
    /\ UNCHANGED backupVars

\* lines 150-152
BackupNoMagic ==
    /\ pc = "magic"
    /\ ~startswith(backup_output, MAGIC)
    /\ logged' = logged \cup {"no_valid_backup"}
    /\ pc' = "done"
    /\ UNCHANGED <<exc, results, results0, produced, privRaised, backupCalls>>
    /\ UNCHANGED directVars
    /\ UNCHANGED backupVars

\* lines 150, 154: the stream splits into five fields.
BackupSplit ==
    /\ pc = "magic"
    /\ startswith(backup_output, MAGIC)
    /\ Len(split(backup_output, NL, 4)) = 5
    /\ fields' = split(backup_output, NL, 4)
    /\ pc' = "check"
    /\ UNCHANGED <<exc, results, results0, produced, privRaised, backupCalls,
                   logged, bu_commands, backup_output_b64, backup_output,
                   tarHanded, members, nmsgs>>
    /\ UNCHANGED directVars

\* line 154: fewer than five fields, the unpacking raises ValueError.
BackupSplitFails ==
    /\ pc = "magic"
    /\ startswith(backup_output, MAGIC)
    /\ Len(split(backup_output, NL, 4)) # 5
    /\ Raise("ValueError")
    /\ UNCHANGED <<results, results0, produced, privRaised, backupCalls, logged>>
    /\ UNCHANGED directVars
    /\ UNCHANGED backupVars

\* lines 155-158
BackupUnsupported ==
    /\ pc = "check"
    /\ backup_check(fields[4], fields[3]) = "unsupported"
    /\ logged' = logged \cup {"unsupported"}
    /\ pc' = "done"
    /\ UNCHANGED <<exc, results, results0, produced, privRaised, backupCalls>>
    /\ UNCHANGED directVars
    /\ UNCHANGED backupVars

\* line 155: int(is_compressed) raises ValueError.
BackupCheckFails ==
    /\ pc = "check"
    /\ backup_check(fields[4], fields[3]) \notin {"unsupported", "ok"}
    /\ Raise(backup_check(fields[4], fields[3]))
    /\ UNCHANGED <<results, results0, produced, privRaised, backupCalls, logged>>
    /\ UNCHANGED directVars
    /\ UNCHANGED backupVars

\* lines 155, 160, 116-118: the payload goes to the archive decoder.
BackupTarOpen ==
    /\ pc = "check"
    /\ backup_check(fields[4], fields[3]) = "ok"
    /\ tarHanded' = TRUE
    /\ tar_getmembers(fields[5]).ok
    /\ members' = tar_getmembers(fields[5]).members
    /\ pc' = "members"
    /\ UNCHANGED <<exc, results, results0, produced, privRaised, backupCalls,
                   logged, bu_commands, backup_output_b64, backup_output,
                   fields, nmsgs>>
    /\ UNCHANGED directVars

\* lines 155, 160, 116-117: tarfile.open raises ReadError.
BackupTarOpenFails ==
    /\ pc = "check"
    /\ backup_check(fields[4], fields[3]) = "ok"
    /\ tarHanded' = TRUE
    /\ ~tar_getmembers(fields[5]).ok
    /\ Raise("tarfile.ReadError")
    /\ UNCHANGED <<results, results0, produced, privRaised, backupCalls, logged,
                   bu_commands, backup_output_b64, backup_output, fields,
                   members, nmsgs>>
    /\ UNCHANGED directVars

----------------------------------------------------------------------------
(* _extract_sms_from_backup_tar *)

\* lines 118-120: a member of another name is skipped.
MemberSkip ==
    /\ pc = "members"
    /\ members # <<>>
    /\ ~endswith(MemberName[Head(members)], SMS_BACKUP_SUFFIX)
    /\ members' = Tail(members)
    /\ UNCHANGED <<pc, exc, results, results0, produced, privRaised,
                   backupCalls, logged, bu_commands, backup_output_b64,
                   backup_output, fields, tarHanded, nmsgs>>
    /\ UNCHANGED directVars

\* lines 122-124: the member inflates and parses to a message list.
MemberLoad ==
    /\ pc = "members"
    /\ members # <<>>
    /\ endswith(MemberName[Head(members)], SMS_BACKUP_SUFFIX)
    /\ logged' = logged \cup {"extracting_member"}
    /\ pc' = "messages"
    /\ UNCHANGED <<exc, results, results0, produced, privRaised, backupCalls,
                   bu_commands, backup_output_b64, backup_output, fields,
                   tarHanded, members, nmsgs>>
    /\ UNCHANGED directVars

\* lines 123-124: zlib.decompress or json.loads raises.
MemberLoadFails ==
    /\ pc = "members"
    /\ members # <<>>
    /\ endswith(MemberName[Head(members)], SMS_BACKUP_SUFFIX)
    /\ logged' = logged \cup {"extracting_member"}
    /\ \E e \in {"zlib.error", "json.JSONDecodeError"} : Raise(e)
    /\ UNCHANGED <<results, results0, produced, privRaised, backupCalls>>
    /\ UNCHANGED directVars
    /\ UNCHANGED backupVars

\* lines 127-134: one message of the list, normalised, filtered and appended.
MemberMessage ==
    /\ pc = "messages"
    /\ nmsgs < MaxMsgs
    /\ \E m \in JsonMessages :
         /\ backup_message_error(m, TRUE) = "none"
         /\ nmsgs' = nmsgs + 1
         /\ produced' = Append(produced, [src |-> m, rec |-> backup_message(m)])
         /\ results' = IF backup_keep(m.body)
                       THEN append(results, backup_message(m)) ELSE results
    /\ UNCHANGED <<pc, exc, results0, privRaised, backupCalls, logged,
                   bu_commands, backup_output_b64, backup_output, fields,
                   tarHanded, members>>
    /\ UNCHANGED directVars

\* lines 128-132: a field of the message does not convert.
MemberMessageFails ==
    /\ pc = "messages"
    /\ nmsgs < MaxMsgs
    /\ \E m \in JsonMessages, convOk \in BOOLEAN :
         /\ backup_message_error(m, convOk) # "none"
         /\ Raise(backup_message_error(m, convOk))
    /\ nmsgs' = nmsgs + 1
    /\ UNCHANGED <<results, results0, produced, privRaised, backupCalls, logged,
                   bu_commands, backup_output_b64, backup_output, fields,
                   tarHanded, members>>
    /\ UNCHANGED directVars

\* line 127: the list is exhausted, on to the next member.
MemberDone ==
    /\ pc = "messages"
    /\ members' = Tail(members)
    /\ pc' = "members"
    /\ UNCHANGED <<exc, results, results0, produced, privRaised, backupCalls,
                   logged, bu_commands, backup_output_b64, backup_output,
                   fields, tarHanded, nmsgs>>
    /\ UNCHANGED directVars

\* lines 118, 136: no member is left; log and return.
MembersEnd ==
    /\ pc = "members"
    /\ members = <<>>
    /\ logged' = logged \cup {"extracted_total"}
    /\ pc' = "done"
    /\ UNCHANGED <<exc, results, results0, produced, privRaised, backupCalls>>
    /\ UNCHANGED directVars
    /\ UNCHANGED backupVars

----------------------------------------------------------------------------
Next ==
    \/ ProbeBugleFound \/ ProbeBugleAbsent \/ ProbeBugleDenied
    \/ ProbeMmssmsFound \/ ProbeMmssmsAbsent \/ ProbeMmssmsDenied
    \/ ProcessFileCopied \/ ProcessFileDenied
    \/ ParseConnect \/ ParseExecute \/ ParseExecuteFails
    \/ ParseRow \/ ParseRowConvertFails \/ ParseRowNullBody \/ ParseClose
    \/ RunFallback \/ BackupCommand \/ BackupDecode \/ BackupDecodeFails
    \/ BackupNoMagic \/ BackupSplit \/ BackupSplitFails
    \/ BackupUnsupported \/ BackupCheckFails \/ BackupTarOpen \/ BackupTarOpenFails
    \/ MemberSkip \/ MemberLoad \/ MemberLoadFails
    \/ MemberMessage \/ MemberMessageFails \/ MemberDone \/ MembersEnd

Spec == Init /\ [][Next]_vars

TypeOK ==
    /\ pc \in {"run", "probe_mmssms", "process_file", "connect", "execute",
               "fetch", "except", "adb_backup", "b64decode", "magic", "check",
               "members", "messages", "done", "raised"}
    /\ SMS_DB_TYPE \in 0..2
    /\ conn \in {"none", "open", "closed"}
    /\ nrows \in 0..MaxRows
    /\ nmsgs \in 0..MaxMsgs

----------------------------------------------------------------------------
(* Properties *)

\* The retention predicate, written out on the text itself: a link occurs
\* in the body, or every character of the body is whitespace.
Retained(body) ==
    \/ \E k \in 1..Len(body) : body[k] = "L"
    \/ \A k \in 1..Len(body) : body[k] = " "

\* The records this run appended.
Appended == SubSeq(results, Len(results0) + 1, Len(results))

FromParseDb == backupCalls = 0 /\ executed # <<>>

InUnknownGroup(sender_id) ==
    sender_id \in DOMAIN participants /\ participants[sender_id] = -1

\* C1: every record the run appended to the result list has a body that
\* contains a link or is empty after trimming, on the direct path, on the
\* backup path and in a run that ended on an error.
C1_AppendedRecordsRetained ==
    /\ Len(results0) <= Len(results)
    /\ \A i \in 1..Len(Appended) : Retained(Appended[i].body)

C1_Witness ==
    /\ Len(Appended) > 0
    /\ \E i \in 1..Len(produced) : ~Retained(produced[i].rec.body)
    /\ Len(Appended) < Len(produced)

C3_LegacyDirection ==
    (FromParseDb /\ executed[1] = SMS_MMSMS_QUERY) =>
        \A i \in 1..Len(produced) :
            /\ produced[i].rec.direction \in {"sent", "received"}
            /\ produced[i].rec.direction = "received" <=> produced[i].src.type = 1

C3_Witness ==
    /\ FromParseDb /\ executed[1] = SMS_MMSMS_QUERY
    /\ \E i \in 1..Len(produced) : produced[i].src.type = 1
    /\ \E i \in 1..Len(produced) : produced[i].src.type \notin {1, 2}

\* C4: a privilege signal raised in the direct-access phase never escapes
\* run(); once handled, the backup extraction has been invoked exactly once,
\* and the records that were in the result list stay at its front.
C4_PrivilegeFallsBack ==
    /\ exc # "InsufficientPrivileges"
    /\ privRaised > 0 =>
          /\ pc # "except" => backupCalls = 1
          /\ pc = "except" => backupCalls = 0
          /\ IsPrefix(results0, results)

C4_Witness ==
    /\ privRaised = 1 /\ pc = "done" /\ backupCalls = 1
    /\ SMS_DB_TYPE = 2
    /\ results0 # <<>> /\ Len(Appended) > 0

\* C5 as stated: no failure on the backup path escapes run(); whatever the
\* backup command returned, run() returns normally.
C5_BackupNeverRaises ==
    backupCalls > 0 => pc # "raised"

Decoded == pc \in {"check", "members", "messages", "done", "raised"} /\ fields # <<>>

\* C6 as stated: a decoded stream that starts with the magic literal and
\* whose encryption field is not "none" or whose isCompressed field is not
\* "0" is logged as unsupported, never reaches the archive decoder, appends
\* no record and the call returns normally.
C6_UnsupportedRejected ==
    (Decoded /\ startswith(backup_output, MAGIC)
        /\ (fields[4] # <<"n", "o", "n", "e">> \/ fields[3] # <<"0">>)) =>
        /\ ~tarHanded
        /\ results = results0
        /\ pc \in {"check", "done"}
        /\ pc = "done" => "unsupported" \in logged

\* C7: when both probes report the store absent and no privilege signal is
\* raised, run() returns without copying or querying a store, without
\* issuing the backup command and with the result list as it was.
C7_NothingFound ==
    (Len(probes) = 2 /\ SMS_DB_TYPE = 0 /\ privRaised = 0) =>
        /\ pc = "done" /\ exc = "none"
        /\ copied = <<>> /\ executed = <<>> /\ conn = "none"
        /\ backupCalls = 0 /\ bu_commands = 0
        /\ results = results0

C7_Witness ==
    /\ Len(probes) = 2 /\ SMS_DB_TYPE = 0 /\ privRaised = 0
    /\ results0 # <<>>

C8_State ==
    /\ probes \in { <<>>, <<SMS_BUGLE_PATH>>, <<SMS_BUGLE_PATH, SMS_MMSSMS_PATH>> }
    /\ Len(probes) = 2 => SMS_DB_TYPE # 1
    /\ SMS_DB_TYPE = 1 => executed \in { <<>>, <<SMS_BUGLE_QUERY>> }
    /\ SMS_DB_TYPE = 2 => executed \in { <<>>, <<SMS_MMSMS_QUERY>> }
    /\ SMS_DB_TYPE = 0 => executed = <<>>
    /\ (conn = "closed" /\ privRaised = 0) =>
          pc = "done" /\ backupCalls = 0 /\ bu_commands = 0

\* C8: the ChatApp path is probed first and the LegacyTelephony path only
\* after the ChatApp probe reported absent; the schema variant, once set,
\* does not change; only the query of that variant is executed; and a
\* direct-access extraction that completed without a privilege signal ends
\* the run without the backup path.
C8_ProbeOrderAndVariant ==
    [][ /\ C8_State'
        /\ SMS_DB_TYPE # 0 => SMS_DB_TYPE' = SMS_DB_TYPE ]_vars

C8_Witness ==
    /\ SMS_DB_TYPE = 2 /\ conn = "closed" /\ pc = "done"
    /\ Len(produced) = 2 /\ Appended = <<>>

\* C9 as stated: whenever _parse_db has returned or raised, the connection
\* it opened is closed.
C9_ConnectionClosed ==
    pc \notin {"connect", "execute", "fetch"} => conn # "open"

KeptRecords ==
    LET kept == SelectSeq(produced, LAMBDA p : Retained(p.rec.body))
    IN  [i \in 1..Len(kept) |-> kept[i].rec]

\* C10: every step leaves the result list as it was or extends it at the
\* end, and the appended records are the retained ones among the rows or
\* messages iterated, in iteration order.
C10_AppendOnlyInOrder ==
    [][ /\ IsPrefix(results, results')
        /\ Appended' = KeptRecords' ]_vars

C10_Witness ==
    /\ pc = "raised"
    /\ results0 # <<>>
    /\ Len(Appended) = 2 /\ Appended[1] # Appended[2]
    /\ Len(produced) > 2 \/ Len(members) = 1

====
